---- MODULE Spec2Model ----
(***************************************************************************)
(* Model of the Socket.IO room server (server/index.js, here              *)
(* src/unnamed/part_002) and of the Message schema (src/unnamed/part_000). *)
(*                                                                         *)
(* Node runs one handler at a time up to its next `await`.  Every action   *)
(* below is one such uninterrupted run: the synchronous prefix of a        *)
(* handler, or the completion of one awaited store call together with the  *)
(* continuation that follows it, up to the next `await`.  Between two      *)
(* actions of one handler any other handler may run.                       *)
(***************************************************************************)
EXTENDS Integers, Sequences, FiniteSets, TLC

(***************************************************************************)
(* Bounds of the model.                                                    *)
(***************************************************************************)
NumConns == 2      \* sockets that may connect
MaxMsgs == 2       \* Message documents ever constructed
MaxEvents == 3     \* events that arrive: client events and store outages

Conns == 1..NumConns
Rooms == {"r1", "r2"}
Names == {"", "a"}          \* "" is the falsy display name
Labels == {"up"}
Texts == {"hi"}
SendNames == {"a"}
MsgIds == 1..MaxMsgs
HistoryLimit == 200

VARIABLES
  sockets,      \* socket id -> "new" | "connected" | "disconnected"
  joined,       \* socket id -> rooms of the socket (socket.join / socket.leave)
  online,       \* room -> sequence of [id, name]: the object online[room]
  onlineKeys,   \* Object.keys(online), in insertion order
  dbConnected,  \* mongoose.connection.readyState === 1
  store,        \* the messages collection: _id -> document
  nextId,       \* number of Message documents constructed so far
  tasks,        \* handlers suspended on a store call, in issue order
  out,          \* what the last step emitted, in order
  last,         \* the last step taken
  lastPresence, \* room -> payload of the last presence event sent to it
  joinOrder,    \* <<room, c1, c2>>: c1's entry was inserted before c2's
  issued,       \* number of events that have arrived so far
  reactCount    \* _id -> label -> reactMessage handlers that ran to their
                \* broadcast

vars == <<sockets, joined, online, onlineKeys, dbConnected, store, nextId,
          tasks, out, last, lastPresence, joinOrder, issued, reactCount>>

(***************************************************************************)
(* JavaScript objects used as insertion-ordered maps.  Socket ids are      *)
(* random strings, never array indices, so Object.values lists the         *)
(* entries in insertion order; overwriting a key keeps its position.       *)
(***************************************************************************)
Range(s) == {s[i] : i \in DOMAIN s}

HasKey(entries, c) == \E i \in DOMAIN entries : entries[i].id = c

GetName(entries, c) ==
  IF HasKey(entries, c)
  THEN entries[CHOOSE i \in DOMAIN entries : entries[i].id = c].name
  ELSE ""

\* a variant that inserts a new key in front of the others
PutFirst(entries, c, n) ==
  IF HasKey(entries, c)
  THEN [i \in DOMAIN entries |->
          IF entries[i].id = c THEN [id |-> c, name |-> n] ELSE entries[i]]
  ELSE <<[id |-> c, name |-> n]>> \o entries

\* online[room][socket.id] = username
Put(entries, c, n) ==
  IF HasKey(entries, c)
  THEN [i \in DOMAIN entries |->
          IF entries[i].id = c THEN [id |-> c, name |-> n] ELSE entries[i]]
  ELSE Append(entries, [id |-> c, name |-> n])

\* a variant of the delete that leaves the entry in the mapping
KeepEntry(entries, c) == entries

\* a variant of the delete that drops the whole mapping of the room
DeleteAll(entries, c) == <<>>

\* delete online[room][socket.id]
Delete(entries, c) == SelectSeq(entries, LAMBDA e : e.id # c)

\* Object.values(online[room])
Values(entries) == [i \in DOMAIN entries |-> entries[i].name]

\* JavaScript truthiness of a display name
Truthy(n) == n # ""

\* online[room] is defined
Known(keys, room) == room \in Range(keys)

(***************************************************************************)
(* Emission.  io.to(room).emit reaches the sockets that are in the room    *)
(* at that moment; socket.emit reaches the socket itself.                  *)
(***************************************************************************)
Members(j, room) == {c \in Conns : room \in j[c]}

Emit(room, ev, to, payload) ==
  [room |-> room, ev |-> ev, to |-> to, payload |-> payload]

\* a variant that reaches every connected socket: io.emit(ev, payload)
ToAll(j, room, ev, payload) ==
  Emit(room, ev, {c \in Conns : sockets[c] = "connected"}, payload)

\* io.to(room).emit(ev, payload)
ToRoom(j, room, ev, payload) == Emit(room, ev, Members(j, room), payload)

\* a variant that sends the private event to every connected socket
ToEverySocket(c, ev, payload) ==
  Emit("", ev, {d \in Conns : sockets[d] = "connected"}, payload)

\* socket.emit(ev, payload)
ToSocket(c, ev, payload) ==
  Emit("", ev, IF sockets[c] = "connected" THEN {c} ELSE {}, payload)

(***************************************************************************)
(* Message documents (messageSchema).  _id and createdAt are set when the  *)
(* document is constructed; createdAt is a logical clock (the number of    *)
(* documents constructed so far).  reactions maps a label to its count,    *)
(* 0 for a label the object does not hold.  NullMsg stands for null.       *)
(***************************************************************************)
NoReactions == [l \in Labels |-> 0]

NullMsg ==
  [id |-> 0, room |-> "", username |-> "", text |-> "", createdAt |-> 0,
   reactions |-> NoReactions, pinned |-> FALSE]

\* new Message({ room, username, text })
NewMessage(id, room, username, text) ==
  [id |-> id, room |-> room, username |-> username, text |-> text,
   createdAt |-> id, reactions |-> NoReactions, pinned |-> FALSE]

\* the step just taken: the handler, its socket and arguments, whether its
\* guard or store call succeeded, and whether the store held the message
Step(act, c, room, id, ok, found) ==
  [act |-> act, conn |-> c, room |-> room, id |-> id, ok |-> ok,
   found |-> found]

\* a handler suspended on a store call: its event, socket and arguments, the
\* call it awaits, and the document it holds in memory
Task(kind, c, room, id, label, pc, doc, modified) ==
  [kind |-> kind, conn |-> c, room |-> room, id |-> id, label |-> label,
   pc |-> pc, doc |-> doc, modified |-> modified]

RemoveAt(s, t) ==
  [k \in 1..(Len(s) - 1) |-> IF k < t THEN s[k] ELSE s[k + 1]]

Pending(t, kind, pc) ==
  /\ t \in DOMAIN tasks
  /\ tasks[t].kind = kind
  /\ tasks[t].pc = pc

\* one more event arrives
Issue ==
  /\ issued < MaxEvents
  /\ issued' = issued + 1

Init ==
  /\ sockets = [c \in Conns |-> "new"]
  /\ joined = [c \in Conns |-> {}]
  /\ online = [r \in Rooms |-> <<>>]
  /\ onlineKeys = <<>>
  /\ dbConnected = TRUE
  /\ store = [i \in MsgIds |-> NullMsg]
  /\ nextId = 0
  /\ tasks = <<>>
  /\ out = <<>>
  /\ last = Step("init", 0, "", 0, TRUE, FALSE)
  /\ lastPresence = [r \in Rooms |-> <<>>]
  /\ joinOrder = {}
  /\ issued = 0
  /\ reactCount = [i \in MsgIds |-> NoReactions]


(***************************************************************************)
(* A new socket connects: io.on("connection") registers its handlers.      *)
(* Socket ids are fresh, so the sockets connect in the order of their ids. *)
(***************************************************************************)
Connect(c) ==
  /\ sockets[c] = "new"
  /\ \A d \in Conns : d < c => sockets[d] # "new"
  /\ sockets' = [sockets EXCEPT ![c] = "connected"]
  /\ out' = <<>>
  /\ last' = Step("connect", c, "", 0, TRUE, FALSE)
  /\ UNCHANGED <<joined, online, onlineKeys, dbConnected, store, nextId,
                 tasks, lastPresence, joinOrder, issued, reactCount>>

\* a variant of joinRoom that tests the store first and, when it is down,
\* answers with the empty history before it has registered the socket
JoinRoomGuardFirst(c, room, name) ==
  /\ sockets[c] = "connected"
  /\ Issue
  /\ last' = Step("joinRoom", c, room, 0, dbConnected, FALSE)
  /\ IF ~dbConnected
     THEN /\ out' = <<ToSocket(c, "loadMessages", <<>>)>>
          /\ UNCHANGED <<joined, online, onlineKeys, joinOrder, lastPresence,
                         tasks>>
     ELSE /\ joined' = [joined EXCEPT ![c] = @ \cup {room}]
          /\ onlineKeys' = IF Known(onlineKeys, room) THEN onlineKeys
                                                      ELSE Append(onlineKeys, room)
          /\ online' = [online EXCEPT ![room] = Put(@, c, name)]
          /\ joinOrder' = IF HasKey(online[room], c) THEN joinOrder
                          ELSE joinOrder \cup
                               {<<room, online[room][i].id, c>> :
                                  i \in DOMAIN online[room]}
          /\ lastPresence' = [lastPresence EXCEPT ![room] = Values(online'[room])]
          /\ out' = <<ToRoom(joined', room, "presence", Values(online'[room]))>>
          /\ tasks' = Append(tasks,
                        Task("join", c, room, 0, "", "find", NullMsg, FALSE))
  /\ UNCHANGED <<sockets, dbConnected, store, nextId, reactCount>>

(***************************************************************************)
(* socket.on("joinRoom"): the synchronous part, up to `await Message.find`.*)
(***************************************************************************)
JoinRoom(c, room, name) ==
  /\ sockets[c] = "connected"
  /\ Issue
  /\ joined' = [joined EXCEPT ![c] = @ \cup {room}]
  /\ onlineKeys' = IF Known(onlineKeys, room) THEN onlineKeys
                                              ELSE Append(onlineKeys, room)
  /\ online' = [online EXCEPT ![room] = Put(@, c, name)]
  /\ joinOrder' = IF HasKey(online[room], c) THEN joinOrder
                  ELSE joinOrder \cup
                       {<<room, online[room][i].id, c>> : i \in DOMAIN online[room]}
  /\ lastPresence' = [lastPresence EXCEPT ![room] = Values(online'[room])]
  /\ IF ~dbConnected
     THEN /\ out' = <<ToRoom(joined', room, "presence", Values(online'[room])),
                      ToSocket(c, "loadMessages", <<>>)>>
          /\ tasks' = tasks
     ELSE /\ out' = <<ToRoom(joined', room, "presence", Values(online'[room]))>>
          /\ tasks' = Append(tasks,
                        Task("join", c, room, 0, "", "find", NullMsg, FALSE))
  /\ last' = Step("joinRoom", c, room, 0, dbConnected, FALSE)
  /\ UNCHANGED <<sockets, dbConnected, store, nextId, reactCount>>

(***************************************************************************)
(* socket.on("leaveRoom")                                                  *)
(***************************************************************************)
LeaveRoom(c, room) ==
  /\ sockets[c] = "connected"
  /\ Issue
  /\ joined' = [joined EXCEPT ![c] = @ \ {room}]
  /\ online' = IF Known(onlineKeys, room)
               THEN [online EXCEPT ![room] = Delete(@, c)]
               ELSE online
  /\ joinOrder' = {o \in joinOrder : ~(o[1] = room /\ c \in {o[2], o[3]})}
  /\ lastPresence' = [lastPresence EXCEPT ![room] =
                        IF Known(onlineKeys, room) THEN Values(online'[room])
                                                   ELSE <<>>]
  /\ out' = <<ToRoom(joined', room, "presence",
                     IF Known(onlineKeys, room) THEN Values(online'[room])
                                                ELSE <<>>)>>
  /\ last' = Step("leaveRoom", c, room, 0, TRUE, FALSE)
  /\ UNCHANGED <<sockets, onlineKeys, dbConnected, store, nextId, tasks,
                 reactCount>>

\* the rooms whose entry for c the disconnect handler deletes, in key order
DisconnectRooms(c) ==
  SelectSeq(onlineKeys, LAMBDA r : Truthy(GetName(online[r], c)))

(***************************************************************************)
(* socket.on("disconnect").  Socket.IO has taken the socket out of all its *)
(* rooms before it fires the event.                                        *)
(***************************************************************************)
Disconnect(c) ==
  /\ sockets[c] = "connected"
  /\ Issue
  /\ sockets' = [sockets EXCEPT ![c] = "disconnected"]
  /\ joined' = [joined EXCEPT ![c] = {}]
  /\ online' = [r \in Rooms |->
                  IF r \in Range(DisconnectRooms(c)) THEN Delete(online[r], c)
                                                     ELSE online[r]]
  /\ joinOrder' = {o \in joinOrder :
                     ~(o[1] \in Range(DisconnectRooms(c)) /\ c \in {o[2], o[3]})}
  /\ lastPresence' = [r \in Rooms |->
                        IF r \in Range(DisconnectRooms(c))
                        THEN Values(online'[r]) ELSE lastPresence[r]]
  /\ out' = [i \in DOMAIN DisconnectRooms(c) |->
               ToRoom(joined', DisconnectRooms(c)[i], "presence",
                      Values(online'[DisconnectRooms(c)[i]]))]
  /\ last' = Step("disconnect", c, "", 0, TRUE, FALSE)
  /\ UNCHANGED <<onlineKeys, dbConnected, store, nextId, tasks, reactCount>>


(***************************************************************************)
(* The store calls.  A call that is awaited either completes (which needs  *)
(* the connection: mongoose buffers a command while it is down) or throws. *)
(***************************************************************************)
RECURSIVE SortByCreatedAt(_)
\* .sort({ createdAt: 1 }): the documents of S, oldest first.  The sequence
\* is built around a middle document so that the depth of the recursion is
\* the logarithm of the size of S.
SortByCreatedAt(S) ==
  IF S = {} THEN <<>>
  ELSE LET Older(x) == {y \in S : y.createdAt < x.createdAt}
           NotNewer(x) == {y \in S : y.createdAt <= x.createdAt}
           half == Cardinality(S) \div 2
           m == CHOOSE x \in S : /\ Cardinality(Older(x)) <= half
                                 /\ Cardinality(NotNewer(x)) > half
       IN  SortByCreatedAt(Older(m)) \o <<m>>
             \o SortByCreatedAt((S \ Older(m)) \ {m})

\* .limit(n)
Limit(s, n) == IF Len(s) <= n THEN s ELSE SubSeq(s, 1, n)

\* Message.find({ room }).sort({ createdAt: 1 }).limit(limit)
FindByRoom(st, room, limit) ==
  Limit(SortByCreatedAt({st[i] : i \in {k \in DOMAIN st :
                                          st[k].id # 0 /\ st[k].room = room}}),
        limit)

\* Message.findById(id): the document, or null
FindById(st, id) == IF id \in DOMAIN st THEN st[id] ELSE NullMsg

\* the collection after the insert that msg.save() does for a new document
Insert(st, doc) == [st EXCEPT ![doc.id] = doc]

\* a variant that leaves the document in the collection
DeleteNone(st, id) == st

\* the collection after Message.findByIdAndDelete(id)
FindByIdAndDelete(st, id) == [st EXCEPT ![id] = NullMsg]

\* a variant that clears the flag of a pinned message
TogglePinned(st, id) ==
  IF st[id].id = 0 THEN st ELSE [st EXCEPT ![id].pinned = ~@]

\* the collection after Message.findByIdAndUpdate(id, { pinned: true })
FindByIdAndUpdatePinned(st, id) ==
  IF st[id].id = 0 THEN st ELSE [st EXCEPT ![id].pinned = TRUE]

(***************************************************************************)
(* msg.save() of a document that was loaded from the store sends only the  *)
(* paths mongoose has tracked as modified.  reactions is a Mixed path:     *)
(* a change made inside the object is not tracked.  The assignment         *)
(* `msg.reactions = msg.reactions || {}` sets the path to the value it     *)
(* already has, which marks it modified only when that value is the        *)
(* schema default standing in for a field the stored document lacks (an    *)
(* empty reactions object is not stored: the schema minimizes).  So the    *)
(* path is modified exactly when the loaded document had no reactions.     *)
(***************************************************************************)
ReactionsModified(loaded) == loaded.reactions = NoReactions

\* a variant of the increment whose first count starts from one:
\* (msg.reactions[reaction] || 1) + 1
IncrementFromOne(doc, label) ==
  [doc EXCEPT !.reactions[label] = IF @ = 0 THEN 2 ELSE @ + 1]

\* msg.reactions[reaction] = (msg.reactions[reaction] || 0) + 1
Increment(doc, label) == [doc EXCEPT !.reactions[label] = @ + 1]

\* a variant of save() that adds one to the count the store holds
SaveAtomic(st, doc, label, modified) ==
  IF modified THEN [st EXCEPT ![doc.id].reactions[label] = @ + 1] ELSE st

\* a variant of save() that writes the whole document as the handler holds it
SaveWhole(st, doc, label, modified) == [st EXCEPT ![doc.id] = doc]

\* the collection after msg.save() of a loaded document that exists in it:
\* $set of the modified path
Save(st, doc, label, modified) ==
  IF modified THEN [st EXCEPT ![doc.id].reactions = doc.reactions] ELSE st

\* what every step of a message handler leaves alone
MessageFrame ==
  UNCHANGED <<sockets, joined, online, onlineKeys, dbConnected, lastPresence,
              joinOrder>>

\* a variant of the completion of joinRoom whose catch only logs
JoinFindSilent(t, ok) ==
  /\ Pending(t, "join", "find")
  /\ ok => dbConnected
  /\ out' = IF ok
            THEN <<ToSocket(tasks[t].conn, "loadMessages",
                            FindByRoom(store, tasks[t].room, HistoryLimit))>>
            ELSE <<>>
  /\ tasks' = RemoveAt(tasks, t)
  /\ last' = Step("joinFind", tasks[t].conn, tasks[t].room, 0, ok, FALSE)
  /\ MessageFrame
  /\ UNCHANGED <<store, nextId, issued, reactCount>>

(***************************************************************************)
(* joinRoom, after `await Message.find(...)`                               *)
(***************************************************************************)
JoinFind(t, ok) ==
  /\ Pending(t, "join", "find")
  /\ ok => dbConnected
  /\ out' = <<ToSocket(tasks[t].conn, "loadMessages",
                       IF ok THEN FindByRoom(store, tasks[t].room, HistoryLimit)
                             ELSE <<>>)>>
  /\ tasks' = RemoveAt(tasks, t)
  /\ last' = Step("joinFind", tasks[t].conn, tasks[t].room, 0, ok, FALSE)
  /\ MessageFrame
  /\ UNCHANGED <<store, nextId, issued, reactCount>>

\* a variant of sendMessage that also records the sender's name in the
\* presence table of the room
SendMessageRegisters(c, room, username, text) ==
  /\ sockets[c] = "connected"
  /\ Issue
  /\ IF ~dbConnected
     THEN /\ out' = <<ToSocket(c, "messageError", "Database connection lost")>>
          /\ UNCHANGED <<tasks, nextId>>
     ELSE /\ nextId < MaxMsgs
          /\ nextId' = nextId + 1
          /\ tasks' = Append(tasks,
                        Task("send", c, room, nextId', "", "save",
                             NewMessage(nextId', room, username, text), FALSE))
          /\ out' = <<>>
  /\ online' = [online EXCEPT ![room] = Put(@, c, username)]
  /\ onlineKeys' = IF Known(onlineKeys, room) THEN onlineKeys
                                              ELSE Append(onlineKeys, room)
  /\ lastPresence' = [lastPresence EXCEPT ![room] = Values(online'[room])]
  /\ last' = Step("sendMessage", c, room, 0, dbConnected, FALSE)
  /\ UNCHANGED <<sockets, joined, dbConnected, joinOrder, store, reactCount>>

(***************************************************************************)
(* socket.on("sendMessage"): up to `await msg.save()`                      *)
(***************************************************************************)
SendMessage(c, room, username, text) ==
  /\ sockets[c] = "connected"
  /\ Issue
  /\ IF ~dbConnected
     THEN /\ out' = <<ToSocket(c, "messageError", "Database connection lost")>>
          /\ UNCHANGED <<tasks, nextId>>
     ELSE /\ nextId < MaxMsgs
          /\ nextId' = nextId + 1
          /\ tasks' = Append(tasks,
                        Task("send", c, room, nextId', "", "save",
                             NewMessage(nextId', room, username, text), FALSE))
          /\ out' = <<>>
  /\ last' = Step("sendMessage", c, room, 0, dbConnected, FALSE)
  /\ MessageFrame
  /\ UNCHANGED <<store, reactCount>>

\* a variant of the completion of sendMessage without the catch: the
\* rejection of save() is unhandled and the process exits, which closes
\* every socket and drops every suspended handler
SendSaveUncaught(t, ok) ==
  /\ Pending(t, "send", "save")
  /\ ok => dbConnected
  /\ store' = IF ok THEN Insert(store, tasks[t].doc) ELSE store
  /\ out' = IF ok
            THEN <<ToRoom(joined, tasks[t].room, "newMessage", tasks[t].doc)>>
            ELSE <<>>
  /\ tasks' = IF ok THEN RemoveAt(tasks, t) ELSE <<>>
  /\ sockets' = IF ok THEN sockets
                ELSE [c \in Conns |-> IF sockets[c] = "new" THEN "new"
                                                            ELSE "disconnected"]
  /\ joined' = IF ok THEN joined ELSE [c \in Conns |-> {}]
  /\ last' = Step("sendSave", tasks[t].conn, tasks[t].room, tasks[t].id, ok, FALSE)
  /\ UNCHANGED <<online, onlineKeys, dbConnected, lastPresence, joinOrder,
                 nextId, issued, reactCount>>

\* sendMessage, after `await msg.save()`
SendSave(t, ok) ==
  /\ Pending(t, "send", "save")
  /\ ok => dbConnected
  /\ store' = IF ok THEN Insert(store, tasks[t].doc) ELSE store
  /\ out' = IF ok
            THEN <<ToRoom(joined, tasks[t].room, "newMessage", tasks[t].doc)>>
            ELSE <<ToSocket(tasks[t].conn, "messageError",
                            "Failed to save message")>>
  /\ tasks' = RemoveAt(tasks, t)
  /\ last' = Step("sendSave", tasks[t].conn, tasks[t].room, tasks[t].id, ok, FALSE)
  /\ MessageFrame
  /\ UNCHANGED <<nextId, issued, reactCount>>

(***************************************************************************)
(* socket.on("reactMessage"): up to `await Message.findById(messageId)`    *)
(***************************************************************************)
ReactMessage(c, id, label, room) ==
  /\ sockets[c] = "connected"
  /\ Issue
  /\ IF ~dbConnected
     THEN tasks' = tasks
     ELSE tasks' = Append(tasks,
                        Task("react", c, room, id, label, "find", NullMsg, FALSE))
  /\ out' = <<>>
  /\ last' = Step("reactMessage", c, room, id, dbConnected, FALSE)
  /\ MessageFrame
  /\ UNCHANGED <<store, nextId, reactCount>>

\* reactMessage, after `await Message.findById`, up to `await msg.save()`
ReactFind(t, ok) ==
  /\ Pending(t, "react", "find")
  /\ ok => dbConnected
  /\ tasks' = IF ok /\ FindById(store, tasks[t].id).id # 0
              THEN [tasks EXCEPT
                      ![t].pc = "save",
                      ![t].doc = Increment(FindById(store, tasks[t].id),
                                           tasks[t].label),
                      ![t].modified =
                         ReactionsModified(FindById(store, tasks[t].id))]
              ELSE RemoveAt(tasks, t)
  /\ out' = <<>>
  /\ last' = Step("reactFind", tasks[t].conn, tasks[t].room, tasks[t].id, ok,
                  ok /\ FindById(store, tasks[t].id).id # 0)
  /\ MessageFrame
  /\ UNCHANGED <<store, nextId, issued, reactCount>>

\* reactMessage, after `await msg.save()`.  save() of a document that is no
\* longer in the collection throws DocumentNotFoundError.
ReactSave(t, ok) ==
  /\ Pending(t, "react", "save")
  /\ ok => dbConnected
  /\ IF ok /\ FindById(store, tasks[t].id).id # 0
     THEN /\ store' = Save(store, tasks[t].doc, tasks[t].label,
                           tasks[t].modified)
          /\ out' = <<ToRoom(joined, tasks[t].room, "updateMessage",
                             tasks[t].doc)>>
          /\ reactCount' = [reactCount EXCEPT
                              ![tasks[t].id][tasks[t].label] = @ + 1]
     ELSE /\ store' = store
          /\ out' = <<>>
          /\ reactCount' = reactCount
  /\ tasks' = RemoveAt(tasks, t)
  /\ last' = Step("reactSave", tasks[t].conn, tasks[t].room, tasks[t].id, ok,
                  ok /\ FindById(store, tasks[t].id).id # 0)
  /\ MessageFrame
  /\ UNCHANGED <<nextId, issued>>

\* a variant of pinMessage without the guard: the store call is issued while
\* the store is down and waits for the connection
PinMessageQueued(c, id, room) ==
  /\ sockets[c] = "connected"
  /\ Issue
  /\ tasks' = Append(tasks,
                Task("pin", c, room, id, "", "update", NullMsg, FALSE))
  /\ out' = <<>>
  /\ last' = Step("pinMessage", c, room, id, dbConnected, FALSE)
  /\ MessageFrame
  /\ UNCHANGED <<store, nextId, reactCount>>

(***************************************************************************)
(* socket.on("pinMessage"): up to `await Message.findByIdAndUpdate`        *)
(***************************************************************************)
PinMessage(c, id, room) ==
  /\ sockets[c] = "connected"
  /\ Issue
  /\ IF ~dbConnected
     THEN tasks' = tasks
     ELSE tasks' = Append(tasks,
                        Task("pin", c, room, id, "", "update", NullMsg, FALSE))
  /\ out' = <<>>
  /\ last' = Step("pinMessage", c, room, id, dbConnected, FALSE)
  /\ MessageFrame
  /\ UNCHANGED <<store, nextId, reactCount>>

\* pinMessage, after `await Message.findByIdAndUpdate`, up to
\* `await Message.findById`
PinUpdate(t, ok) ==
  /\ Pending(t, "pin", "update")
  /\ ok => dbConnected
  /\ store' = IF ok THEN FindByIdAndUpdatePinned(store, tasks[t].id) ELSE store
  /\ tasks' = IF ok THEN [tasks EXCEPT ![t].pc = "find"] ELSE RemoveAt(tasks, t)
  /\ out' = <<>>
  /\ last' = Step("pinUpdate", tasks[t].conn, tasks[t].room, tasks[t].id, ok,
                  ok /\ FindById(store, tasks[t].id).id # 0)
  /\ MessageFrame
  /\ UNCHANGED <<nextId, issued, reactCount>>

\* pinMessage, after `await Message.findById`
PinFind(t, ok) ==
  /\ Pending(t, "pin", "find")
  /\ ok => dbConnected
  /\ out' = IF ok
            THEN <<ToRoom(joined, tasks[t].room, "updateMessage",
                          FindById(store, tasks[t].id))>>
            ELSE <<>>
  /\ tasks' = RemoveAt(tasks, t)
  /\ last' = Step("pinFind", tasks[t].conn, tasks[t].room, tasks[t].id, ok,
                  ok /\ FindById(store, tasks[t].id).id # 0)
  /\ MessageFrame
  /\ UNCHANGED <<store, nextId, issued, reactCount>>

(***************************************************************************)
(* socket.on("deleteMessage"): up to `await Message.findByIdAndDelete`     *)
(***************************************************************************)
DeleteMessage(c, id, room) ==
  /\ sockets[c] = "connected"
  /\ Issue
  /\ IF ~dbConnected
     THEN tasks' = tasks
     ELSE tasks' = Append(tasks,
                        Task("delete", c, room, id, "", "delete", NullMsg, FALSE))
  /\ out' = <<>>
  /\ last' = Step("deleteMessage", c, room, id, dbConnected, FALSE)
  /\ MessageFrame
  /\ UNCHANGED <<store, nextId, reactCount>>

\* a variant of the completion of deleteMessage that emits the notice
\* whether or not the store call threw
DeleteExecLoud(t, ok) ==
  /\ Pending(t, "delete", "delete")
  /\ ok => dbConnected
  /\ store' = IF ok THEN FindByIdAndDelete(store, tasks[t].id) ELSE store
  /\ out' = <<ToRoom(joined, tasks[t].room, "deletedMessage",
                     [messageId |-> tasks[t].id])>>
  /\ tasks' = RemoveAt(tasks, t)
  /\ last' = Step("deleteExec", tasks[t].conn, tasks[t].room, tasks[t].id, ok,
                  ok /\ FindById(store, tasks[t].id).id # 0)
  /\ MessageFrame
  /\ UNCHANGED <<nextId, issued, reactCount>>

\* deleteMessage, after `await Message.findByIdAndDelete`
DeleteExec(t, ok) ==
  /\ Pending(t, "delete", "delete")
  /\ ok => dbConnected
  /\ store' = IF ok THEN FindByIdAndDelete(store, tasks[t].id) ELSE store
  /\ out' = IF ok
            THEN <<ToRoom(joined, tasks[t].room, "deletedMessage",
                          [messageId |-> tasks[t].id])>>
            ELSE <<>>
  /\ tasks' = RemoveAt(tasks, t)
  /\ last' = Step("deleteExec", tasks[t].conn, tasks[t].room, tasks[t].id, ok,
                  ok /\ FindById(store, tasks[t].id).id # 0)
  /\ MessageFrame
  /\ UNCHANGED <<nextId, issued, reactCount>>

\* the connection to MongoDB is lost / comes back (readyState changes)
DbDown ==
  /\ dbConnected
  /\ dbConnected' = FALSE
  /\ Issue
  /\ out' = <<>>
  /\ last' = Step("dbDown", 0, "", 0, TRUE, FALSE)
  /\ UNCHANGED <<sockets, joined, online, onlineKeys, store, nextId, tasks,
                 lastPresence, joinOrder, reactCount>>

DbUp ==
  /\ ~dbConnected
  /\ dbConnected' = TRUE
  /\ Issue
  /\ out' = <<>>
  /\ last' = Step("dbUp", 0, "", 0, TRUE, FALSE)
  /\ UNCHANGED <<sockets, joined, online, onlineKeys, store, nextId, tasks,
                 lastPresence, joinOrder, reactCount>>

Tasks == 1..MaxEvents

Next ==
  \/ \E c \in Conns : Connect(c)
  \/ \E c \in Conns, room \in Rooms, name \in Names : JoinRoom(c, room, name)
  \/ \E t \in Tasks, ok \in BOOLEAN : JoinFind(t, ok)
  \/ \E c \in Conns, room \in Rooms : LeaveRoom(c, room)
  \/ \E c \in Conns : Disconnect(c)
  \/ \E c \in Conns, room \in Rooms, name \in SendNames, text \in Texts :
        SendMessage(c, room, name, text)
  \/ \E t \in Tasks, ok \in BOOLEAN : SendSave(t, ok)
  \/ \E c \in Conns, id \in MsgIds, label \in Labels, room \in Rooms :
        ReactMessage(c, id, label, room)
  \/ \E t \in Tasks, ok \in BOOLEAN : ReactFind(t, ok)
  \/ \E t \in Tasks, ok \in BOOLEAN : ReactSave(t, ok)
  \/ \E c \in Conns, id \in MsgIds, room \in Rooms : PinMessage(c, id, room)
  \/ \E t \in Tasks, ok \in BOOLEAN : PinUpdate(t, ok)
  \/ \E t \in Tasks, ok \in BOOLEAN : PinFind(t, ok)
  \/ \E c \in Conns, id \in MsgIds, room \in Rooms : DeleteMessage(c, id, room)
  \/ \E t \in Tasks, ok \in BOOLEAN : DeleteExec(t, ok)
  \/ DbDown
  \/ DbUp

Spec == Init /\ [][Next]_vars

(***************************************************************************)
(* The same handlers with no interleaving: a client event arrives only     *)
(* when no handler is suspended on a store call.                           *)
(***************************************************************************)
Quiescent == tasks = <<>>

NextSeq ==
  \/ \E c \in Conns : Connect(c)
  \/ Quiescent /\ \E c \in Conns, room \in Rooms, name \in Names :
        JoinRoom(c, room, name)
  \/ \E t \in Tasks, ok \in BOOLEAN : JoinFind(t, ok)
  \/ Quiescent /\ \E c \in Conns, room \in Rooms : LeaveRoom(c, room)
  \/ Quiescent /\ \E c \in Conns : Disconnect(c)
  \/ Quiescent /\ \E c \in Conns, room \in Rooms, name \in SendNames,
                     text \in Texts : SendMessage(c, room, name, text)
  \/ \E t \in Tasks, ok \in BOOLEAN : SendSave(t, ok)
  \/ Quiescent /\ \E c \in Conns, id \in MsgIds, label \in Labels,
                     room \in Rooms : ReactMessage(c, id, label, room)
  \/ \E t \in Tasks, ok \in BOOLEAN : ReactFind(t, ok)
  \/ \E t \in Tasks, ok \in BOOLEAN : ReactSave(t, ok)
  \/ Quiescent /\ \E c \in Conns, id \in MsgIds, room \in Rooms :
        PinMessage(c, id, room)
  \/ \E t \in Tasks, ok \in BOOLEAN : PinUpdate(t, ok)
  \/ \E t \in Tasks, ok \in BOOLEAN : PinFind(t, ok)
  \/ Quiescent /\ \E c \in Conns, id \in MsgIds, room \in Rooms :
        DeleteMessage(c, id, room)
  \/ \E t \in Tasks, ok \in BOOLEAN : DeleteExec(t, ok)
  \/ DbDown
  \/ DbUp

SpecSeq == Init /\ [][NextSeq]_vars

(***************************************************************************)
(* Properties                                                              *)
(***************************************************************************)
IsMessageEvent(e) == e.ev \in {"newMessage", "updateMessage"}

\* C1: every presence event a step emits goes to the sockets in the room and
\* lists the names the presence table holds for that room after the step, in
\* the order in which their entries were inserted; joinRoom and leaveRoom
\* always emit one for their room; and the table of a room never differs
\* from the last presence event sent to the room.
C1_PresenceSnapshot ==
  /\ \A i \in DOMAIN out :
        out[i].ev = "presence" =>
          /\ out[i].payload =
               [k \in 1..Len(online[out[i].room]) |-> online[out[i].room][k].name]
          /\ out[i].to = {c \in Conns : out[i].room \in joined[c]}
  /\ last.act \in {"joinRoom", "leaveRoom"} =>
        /\ Len(out) >= 1
        /\ out[1].ev = "presence"
        /\ out[1].room = last.room
  /\ \A r \in Rooms :
        /\ lastPresence[r] = [k \in 1..Len(online[r]) |-> online[r][k].name]
        /\ \A i, k \in DOMAIN online[r] :
              i < k => /\ online[r][i].id # online[r][k].id
                       /\ <<r, online[r][i].id, online[r][k].id>> \in joinOrder

\* C1 witness: socket 2 joined r1 before socket 1 did, and the snapshot sent
\* after the second join lists them in that order.
C1_Witness ==
  /\ last.act = "joinRoom"
  /\ last.room = "r1"
  /\ last.conn = 1
  /\ out[1].ev = "presence"
  /\ out[1].payload = <<"a", "">>
  /\ Len(online["r1"]) = 2
  /\ online["r1"][1].id = 2

\* C2: a disconnect removes the socket from the presence mapping of every
\* room that held it, whatever name it joined with, and emits exactly one
\* presence event for each of those rooms.
C2_DisconnectRemovesAll ==
  [][last'.act = "disconnect" =>
       LET c == last'.conn
           held == {r \in Rooms : \E i \in DOMAIN online[r] : online[r][i].id = c}
       IN  /\ \A r \in Rooms : \A i \in DOMAIN online'[r] : online'[r][i].id # c
           /\ Len(out') = Cardinality(held)
           /\ {out'[i].room : i \in DOMAIN out'} = held
           /\ \A i \in DOMAIN out' : out'[i].ev = "presence"]_vars

\* C3: a sendMessage that passed the guard emits nothing before its write;
\* when the write succeeds it emits exactly one newMessage, to exactly the
\* sockets in the target room, carrying the stored document with its
\* identifier and creation time.
C3_SendBroadcast ==
  /\ (last.act = "sendMessage" /\ last.ok) => out = <<>>
  /\ (last.act = "sendSave" /\ last.ok) =>
        /\ Len(out) = 1
        /\ out[1].ev = "newMessage"
        /\ out[1].room = last.room
        /\ out[1].to = {c \in Conns : last.room \in joined[c]}
        /\ out[1].payload.id = last.id
        /\ out[1].payload.id # 0
        /\ out[1].payload.createdAt # 0
        /\ out[1].payload.room = last.room
        /\ store[last.id] = out[1].payload

\* C3 witness: a newMessage reached a member of the room while another
\* socket was a member of the other room only.
C3_Witness ==
  /\ last.act = "sendSave"
  /\ last.ok
  /\ out[1].to # {}
  /\ \E c \in Conns : joined[c] # {} /\ last.room \notin joined[c]

\* C4: a sendMessage processed while the store is unavailable emits exactly
\* one messageError, to the sender only, suspends on no store call and
\* leaves the store as it is.
C4_SendUnavailable ==
  [][(last'.act = "sendMessage" /\ ~last'.ok) =>
        /\ Len(out') = 1
        /\ out'[1].ev = "messageError"
        /\ out'[1].to = {last'.conn}
        /\ out'[1].payload = "Database connection lost"
        /\ store' = store
        /\ tasks' = tasks
        /\ nextId' = nextId]_vars

\* C4 witness: the private error went to the sender while another socket
\* was in the target room.
C4_Witness ==
  /\ last.act = "sendMessage"
  /\ ~last.ok
  /\ out[1].to = {last.conn}
  /\ \E c \in Conns : c # last.conn /\ last.room \in joined[c]

\* C5: with no interleaving, the stored tally of a label of an existing
\* message is the number of reactMessage handlers that ran for it, and the
\* updateMessage of the k-th of them carries count k.
C5_SequentialTally ==
  /\ \A id \in MsgIds, l \in Labels :
        (Quiescent /\ store[id].id # 0) =>
          store[id].reactions[l] = reactCount[id][l]
  /\ (last.act = "reactSave" /\ last.found) =>
        \A l \in Labels :
          out[1].payload.reactions[l] = reactCount[last.id][l]

\* C6: when a reactMessage handler completes whose read was stale (its
\* broadcast carries a count below the number of reactions processed for
\* the label), the stored tally is below that number too: its write did not
\* add to what the store held.
C6_LostUpdate ==
  (last.act = "reactSave" /\ last.found) =>
     \A l \in Labels :
        out[1].payload.reactions[l] < reactCount[last.id][l] =>
          store[last.id].reactions[l] < reactCount[last.id][l]

\* C6 witness: two reactMessage handlers for one message and label both read
\* before either wrote; both were processed and the stored tally is 1.
C6_Witness ==
  /\ last.act = "reactSave"
  /\ last.found
  /\ reactCount[last.id]["up"] = 2
  /\ out[1].payload.reactions["up"] = 1
  /\ store[last.id].reactions["up"] = 1

\* C7: when the store call of a deleteMessage completes, a read of the
\* identifier returns null and exactly one deletedMessage is emitted, to the
\* sockets in the room, whose payload is the identifier alone.
C7_DeleteNotice ==
  (last.act = "deleteExec" /\ last.ok) =>
     /\ store[last.id] = NullMsg
     /\ Len(out) = 1
     /\ out[1].ev = "deletedMessage"
     /\ out[1].room = last.room
     /\ out[1].to = {c \in Conns : last.room \in joined[c]}
     /\ out[1].payload = [messageId |-> last.id]

\* C7 witness: an existing message was deleted and a member got the notice.
C7_Witness ==
  /\ last.act = "deleteExec"
  /\ last.found
  /\ out[1].to # {}

\* C8: the update of a pinMessage on an existing message sets pinned and
\* changes nothing else in the store; on a pinned message it changes nothing.
C8_PinIdempotent ==
  [][(last'.act = "pinUpdate" /\ last'.found) =>
        /\ store' = [store EXCEPT ![last'.id].pinned = TRUE]
        /\ store[last'.id].pinned => store' = store]_vars

\* C8 witness: two pinMessage handlers have both applied their update to the
\* same existing message.
C8_Witness ==
  /\ last.act = "pinUpdate"
  /\ last.found
  /\ store[last.id].pinned
  /\ \E t, u \in DOMAIN tasks :
        /\ t # u
        /\ tasks[t].kind = "pin" /\ tasks[t].pc = "find" /\ tasks[t].id = last.id
        /\ tasks[u].kind = "pin" /\ tasks[u].pc = "find" /\ tasks[u].id = last.id

\* C9: every Message carried by a newMessage or updateMessage is the state
\* the store holds for that message when the store call before the
\* broadcast completes.
C9_BroadcastIsStored ==
  \A i \in DOMAIN out :
     (IsMessageEvent(out[i]) /\ out[i].payload.id # 0) =>
        out[i].payload = store[out[i].payload.id]

\* C10: reactMessage, pinMessage and deleteMessage for an identifier the
\* store does not hold change nothing in the store and emit nothing.
C10_NotFoundSilent ==
  (last.act \in {"reactFind", "pinUpdate", "pinFind", "deleteExec"}
     /\ last.ok /\ ~last.found) =>
     /\ out = <<>>
     /\ store[last.id] = NullMsg

\* C11: two newMessage broadcasts that follow one another, caused by
\* sendMessage events of one socket for one room, come in the order in which
\* the events were issued (identifiers are given in issue order).
C11_IssueOrder ==
  [][(/\ last.act = "sendSave" /\ last.ok
      /\ last'.act = "sendSave" /\ last'.ok
      /\ last'.conn = last.conn
      /\ last'.room = last.room) => last.id < last'.id]_vars

\* C12: a joinRoom processed while the store is unavailable registers the
\* socket in the room and in the presence table, emits the presence snapshot
\* that includes it to the room and one loadMessages with the empty list to
\* the joiner alone, and is finished in that run: it suspends on no store
\* call and touches no message.
C12_JoinUnavailable ==
  [][(last'.act = "joinRoom" /\ ~last'.ok) =>
        LET c == last'.conn
            r == last'.room
        IN  /\ \E i \in DOMAIN online'[r] : online'[r][i].id = c
            /\ r \in joined'[c]
            /\ Len(out') = 2
            /\ out'[1].ev = "presence"
            /\ out'[1].room = r
            /\ out'[1].to = {d \in Conns : r \in joined'[d]}
            /\ out'[1].payload =
                 [k \in 1..Len(online'[r]) |-> online'[r][k].name]
            /\ out'[2].ev = "loadMessages"
            /\ out'[2].to = {c}
            /\ out'[2].payload = <<>>
            /\ tasks' = tasks
            /\ store' = store]_vars

\* C12 witness: a socket joined a room that already had a member while the
\* store was down; both got the snapshot of two names.
C12_Witness ==
  /\ last.act = "joinRoom"
  /\ ~last.ok
  /\ Len(online[last.room]) = 2
  /\ Cardinality(out[1].to) = 2
  /\ out[2].payload = <<>>

(***************************************************************************)
(* The server with a backlog: room r1 holds one message more than joinRoom *)
(* reads, room r2 holds one; sockets join, leave and disconnect.           *)
(***************************************************************************)
Backlog ==
  [i \in 1..(HistoryLimit + 2) |->
     NewMessage(i, IF i <= HistoryLimit + 1 THEN "r1" ELSE "r2", "a", "hi")]

InitHistory ==
  /\ sockets = [c \in Conns |-> "new"]
  /\ joined = [c \in Conns |-> {}]
  /\ online = [r \in Rooms |-> <<>>]
  /\ onlineKeys = <<>>
  /\ dbConnected = TRUE
  /\ store = Backlog
  /\ nextId = HistoryLimit + 2
  /\ tasks = <<>>
  /\ out = <<>>
  /\ last = Step("init", 0, "", 0, TRUE, FALSE)
  /\ lastPresence = [r \in Rooms |-> <<>>]
  /\ joinOrder = {}
  /\ issued = 0
  /\ reactCount = [i \in MsgIds |-> NoReactions]

NextHistory ==
  \/ \E c \in Conns : Connect(c)
  \/ \E c \in Conns, room \in Rooms, name \in Names : JoinRoom(c, room, name)
  \/ \E t \in Tasks, ok \in BOOLEAN : JoinFind(t, ok)
  \/ \E c \in Conns, room \in Rooms : LeaveRoom(c, room)
  \/ \E c \in Conns : Disconnect(c)
  \/ DbDown
  \/ DbUp

SpecHistory == InitHistory /\ [][NextHistory]_vars

\* C13: the loadMessages that answers a joinRoom whose read succeeded goes
\* to the joiner alone and carries messages of that room only, at most
\* HistoryLimit of them, oldest first, and as many as the room allows; every
\* message of the room left out is no newer than the ones delivered.
C13_RecentHistory ==
  (last.act = "joinFind" /\ last.ok) =>
     LET p == out[1].payload
         inRoom == {store[i] : i \in {k \in DOMAIN store :
                                        store[k].id # 0 /\ store[k].room = last.room}}
     IN  /\ Len(out) = 1
         /\ out[1].ev = "loadMessages"
         /\ out[1].to \subseteq {last.conn}
         /\ Len(p) <= HistoryLimit
         /\ \A i \in DOMAIN p : p[i] \in inRoom
         /\ \A i, j \in DOMAIN p : i < j => p[i].createdAt < p[j].createdAt
         /\ Cardinality(inRoom) <= HistoryLimit => Len(p) = Cardinality(inRoom)
         /\ Cardinality(inRoom) > HistoryLimit => Len(p) = HistoryLimit
         /\ \A m \in inRoom :
               (\A i \in DOMAIN p : p[i] # m) =>
                  \A i \in DOMAIN p : m.createdAt < p[i].createdAt

\* C14: a socket id is a key of the presence mapping of at most one room.
C14_SingleRoom ==
  \A c \in Conns :
     Cardinality({r \in Rooms : \E i \in DOMAIN online[r] : online[r][i].id = c})
       <= 1

\* C14 (amended): the rooms whose presence mapping holds the id of a
\* connected socket are exactly the rooms the socket has joined and not
\* left, so the id is in at most one mapping when the socket is in at most
\* one room.
C14_RoomsJoined ==
  \A c \in Conns :
     sockets[c] = "connected" =>
        LET held == {r \in Rooms :
                       \E i \in DOMAIN online[r] : online[r][i].id = c}
        IN  /\ held = joined[c]
            /\ Cardinality(joined[c]) <= 1 => Cardinality(held) <= 1

\* C14 witness: socket 1 joined r1, left it and joined r2: it is in the
\* mapping of r2 only.
C14_Witness ==
  /\ last.act = "joinRoom"
  /\ last.conn = 1
  /\ sockets[2] = "new"
  /\ onlineKeys = <<"r1", "r2">>
  /\ online["r1"] = <<>>
  /\ Len(online["r2"]) = 1
  /\ online["r2"][1].id = 1
  /\ joined[1] = {"r2"}

\* C15: when a store call issued after the guard passed throws, the handler
\* ends there and the store is as it was: a sendMessage emits exactly one
\* messageError, to its sender alone (to nobody if the sender has gone), and
\* no newMessage; a reactMessage, pinMessage or deleteMessage emits nothing.
C15_StoreCallFails ==
  [][/\ (last'.act = "sendSave" /\ ~last'.ok) =>
           /\ Len(out') = 1
           /\ out'[1].ev = "messageError"
           /\ out'[1].payload = "Failed to save message"
           /\ out'[1].to \subseteq {last'.conn}
           /\ sockets[last'.conn] = "connected" => out'[1].to = {last'.conn}
           /\ store' = store
           /\ Len(tasks') = Len(tasks) - 1
     /\ (\/ /\ last'.act \in {"reactFind", "pinUpdate", "pinFind", "deleteExec"}
            /\ ~last'.ok
         \/ /\ last'.act = "reactSave"
            /\ ~last'.found) =>
           /\ out' = <<>>
           /\ store' = store
           /\ Len(tasks') = Len(tasks) - 1]_vars

\* C15 witness: the write of a sendMessage failed while the connection to
\* the store was up; the sender got the error and the other socket, a member
\* of the room, got nothing.
C15_Witness ==
  /\ last.act = "sendSave"
  /\ ~last.ok
  /\ dbConnected
  /\ out[1].to = {last.conn}
  /\ \E c \in Conns : c # last.conn /\ last.room \in joined[c]

(***************************************************************************)
(* The server from the moment the connection to the store has gone down,   *)
(* before any client event.                                                *)
(***************************************************************************)
InitOutage ==
  /\ sockets = [c \in Conns |-> "new"]
  /\ joined = [c \in Conns |-> {}]
  /\ online = [r \in Rooms |-> <<>>]
  /\ onlineKeys = <<>>
  /\ dbConnected = FALSE
  /\ store = [i \in MsgIds |-> NullMsg]
  /\ nextId = 0
  /\ tasks = <<>>
  /\ out = <<>>
  /\ last = Step("dbDown", 0, "", 0, TRUE, FALSE)
  /\ lastPresence = [r \in Rooms |-> <<>>]
  /\ joinOrder = {}
  /\ issued = 0
  /\ reactCount = [i \in MsgIds |-> NoReactions]

SpecOutage == InitOutage /\ [][Next]_vars

GuardedEvents ==
  {"joinRoom", "sendMessage", "reactMessage", "pinMessage", "deleteMessage"}

\* C16: a guarded event that arrives while the store is down issues no store
\* call and leaves the store and the pending handlers as they are; one that
\* arrives while it is up issues its store call in that run, whatever
\* happened before; handlers become pending in no other way; and the store
\* changes and messages are broadcast only when a pending handler's store
\* call completes.  So nothing of a rejected event is persisted or
\* broadcast later.
C16_NoRetry ==
  [][/\ (last'.act \in GuardedEvents /\ ~dbConnected) =>
           /\ ~last'.ok
           /\ tasks' = tasks
           /\ store' = store
           /\ \A i \in DOMAIN out' :
                 out'[i].ev \notin {"newMessage", "updateMessage", "deletedMessage"}
     /\ (last'.act \in GuardedEvents /\ dbConnected) =>
           /\ last'.ok
           /\ tasks' = Append(tasks, tasks'[Len(tasks')])
           /\ tasks'[Len(tasks')].conn = last'.conn
           /\ tasks'[Len(tasks')].room = last'.room
     /\ Len(tasks') > Len(tasks) =>
           /\ last'.act \in GuardedEvents
           /\ dbConnected
     /\ (\/ store' # store
         \/ \E i \in DOMAIN out' :
               out'[i].ev \in {"newMessage", "updateMessage", "deletedMessage"}) =>
           /\ last'.act \notin GuardedEvents
           /\ \E t \in DOMAIN tasks :
                 /\ tasks[t].conn = last'.conn
                 /\ tasks[t].id = last'.id
                 /\ tasks[t].room = last'.room
           /\ Len(tasks') <= Len(tasks)]_vars

\* C16 witness: the store came back after an outage during which an event
\* had arrived, and the sendMessage that arrived next was admitted: its
\* handler is the only one pending, and nothing is stored.
C16_Witness ==
  /\ last.act = "sendMessage"
  /\ last.ok
  /\ issued = MaxEvents
  /\ Len(tasks) = 1
  /\ tasks[1].kind = "send"
  /\ nextId = 1
  /\ \A i \in MsgIds : store[i] = NullMsg
  /\ onlineKeys = <<>>
  /\ sockets = [c \in Conns |-> IF c = 1 THEN "connected" ELSE "new"]

(***************************************************************************)
(* The read of a joinRoom settles: the query carries maxTimeMS(5000), the  *)
(* connection socketTimeoutMS and serverSelectionTimeoutMS, and a command  *)
(* buffered while the connection is down is rejected after                 *)
(* bufferTimeoutMS.  The event loop then runs the continuation.            *)
(***************************************************************************)
JoinFindOf(c, room) ==
  \E t \in Tasks, ok \in BOOLEAN :
     /\ JoinFind(t, ok)
     /\ tasks[t].conn = c
     /\ tasks[t].room = room

JoinFairness == \A c \in Conns, room \in Rooms : WF_vars(JoinFindOf(c, room))

\* the handlers that matter to a joinRoom: presence, the history and the
\* messages that make the history
NextJoin ==
  \/ \E c \in Conns : Connect(c)
  \/ \E c \in Conns, room \in Rooms, name \in Names : JoinRoom(c, room, name)
  \/ \E t \in Tasks, ok \in BOOLEAN : JoinFind(t, ok)
  \/ \E c \in Conns, room \in Rooms : LeaveRoom(c, room)
  \/ \E c \in Conns : Disconnect(c)
  \/ \E c \in Conns, room \in Rooms, name \in SendNames, text \in Texts :
        SendMessage(c, room, name, text)
  \/ \E t \in Tasks, ok \in BOOLEAN : SendSave(t, ok)
  \/ DbDown
  \/ DbUp

SpecLive == Init /\ [][NextJoin]_vars /\ JoinFairness

JoinPending(c, room) ==
  \E t \in DOMAIN tasks :
     /\ tasks[t].kind = "join"
     /\ tasks[t].conn = c
     /\ tasks[t].room = room

LoadEvents == {i \in DOMAIN out : out[i].ev = "loadMessages"}

\* what each step has to emit as loadMessages: a joinRoom that found the
\* store down one empty list, a joinRoom whose read is issued nothing yet,
\* the completion of the read one list (the result, or the empty list when
\* the read failed or timed out), every other step nothing; always on the
\* joiner's socket alone
JoinAnswer ==
  /\ (last.act = "joinRoom" /\ ~last.ok) =>
        /\ Cardinality(LoadEvents) = 1
        /\ \A i \in LoadEvents : out[i].payload = <<>> /\ out[i].to = {last.conn}
  /\ (last.act = "joinRoom" /\ last.ok) =>
        /\ LoadEvents = {}
        /\ JoinPending(last.conn, last.room)
  /\ last.act = "joinFind" =>
        /\ Cardinality(LoadEvents) = 1
        /\ \A i \in LoadEvents :
              /\ out[i].payload =
                   IF last.ok THEN FindByRoom(store, last.room, HistoryLimit)
                              ELSE <<>>
              /\ out[i].to \subseteq {last.conn}
              /\ sockets[last.conn] = "connected" => out[i].to = {last.conn}
  /\ last.act \notin {"joinRoom", "joinFind"} => LoadEvents = {}

\* C17: every joinRoom is answered with exactly one loadMessages on the
\* joiner's socket: at once with the empty list when the store is down, and
\* otherwise when its read settles, which it eventually does, with the
\* result, or with the empty list when the read failed or timed out; the
\* read of a joinRoom ends in no other way.
C17_JoinAnswered ==
  /\ []JoinAnswer
  /\ [][Len(SelectSeq(tasks', LAMBDA k : k.kind = "join"))
          < Len(SelectSeq(tasks, LAMBDA k : k.kind = "join"))
        => /\ last'.act = "joinFind"
           /\ Len(SelectSeq(tasks', LAMBDA k : k.kind = "join"))
                = Len(SelectSeq(tasks, LAMBDA k : k.kind = "join")) - 1]_vars
  /\ \A c \in Conns, room \in Rooms :
        JoinPending(c, room) ~> ~JoinPending(c, room)

\* C17 witness: the read of a joinRoom failed while a message of the room
\* was stored, and the joiner got the empty list.
C17_Witness ==
  /\ last.act = "joinFind"
  /\ ~last.ok
  /\ \E i \in MsgIds : store[i].id # 0 /\ store[i].room = last.room
  /\ out[1].ev = "loadMessages"
  /\ out[1].payload = <<>>
  /\ out[1].to = {last.conn}

\* C18: the payload of every updateMessage is a Message, not null, and the
\* store holds a message with its identifier.
C18_UpdateCarriesMessage ==
  \A i \in DOMAIN out :
     out[i].ev = "updateMessage" =>
        /\ out[i].payload # NullMsg
        /\ out[i].payload.id \in MsgIds
        /\ store[out[i].payload.id].id = out[i].payload.id

\* C19: no step clears the pinned flag of a message: a message that is
\* pinned before a step and still exists after it is pinned after it.
C19_PinStays ==
  [][\A id \in MsgIds :
        (store[id].id # 0 /\ store[id].pinned /\ store'[id].id # 0) =>
           store'[id].pinned]_vars

\* C19 witness: a reactMessage handler read the message before it was
\* pinned and wrote its reaction after; the message is still pinned.
C19_Witness ==
  /\ last.act = "reactSave"
  /\ last.found
  /\ ~out[1].payload.pinned
  /\ store[last.id].pinned
  /\ store[last.id].reactions["up"] = 1

\* C20: a leaveRoom takes the socket's entry out of the room's mapping and
\* keeps the other entries in their order; when there is no such entry the
\* presence table is unchanged; no other room's mapping changes; the handler
\* completes in that run and emits exactly one presence event, to the
\* sockets left in the room, listing the names that remain (the empty list
\* when none remains or the room has no mapping).
C20_LeaveRoom ==
  [][last'.act = "leaveRoom" =>
       LET c == last'.conn
           r == last'.room
       IN  /\ online'[r] = SelectSeq(online[r], LAMBDA e : e.id # c)
           /\ (\A i \in DOMAIN online[r] : online[r][i].id # c) =>
                 online' = online
           /\ \A q \in Rooms \ {r} : online'[q] = online[q]
           /\ onlineKeys' = onlineKeys
           /\ Len(out') = 1
           /\ out'[1].ev = "presence"
           /\ out'[1].room = r
           /\ out'[1].payload =
                [k \in 1..Len(online'[r]) |-> online'[r][k].name]
           /\ out'[1].to = {d \in Conns \ {c} : r \in joined[d]}
           /\ (r \notin Range(onlineKeys) \/ online'[r] = <<>>) =>
                 out'[1].payload = <<>>
           /\ sockets' = sockets
           /\ tasks' = tasks]_vars

\* C20 witness: a socket left a room nobody ever joined while the other room
\* had a member; the snapshot sent is the empty list.
C20_Witness ==
  /\ last.act = "leaveRoom"
  /\ last.room \notin Range(onlineKeys)
  /\ out[1].payload = <<>>
  /\ \E q \in Rooms : q # last.room /\ online[q] # <<>>

\* the steps in which a store call completes
StoreSteps ==
  {"joinFind", "sendSave", "reactFind", "reactSave", "pinUpdate", "pinFind",
   "deleteExec"}

\* the last step met the store down or had its store call throw
Failed ==
  /\ last.act \in GuardedEvents \cup StoreSteps
  /\ ~last.ok

\* C21: a step that meets the store down, or whose store call throws, closes
\* no socket and ends no handler but its own; after it every connected
\* socket can still issue each of its events, every new socket can connect,
\* and every suspended handler can still complete.
C21_FailureIsolated ==
  /\ [][(last'.act \in GuardedEvents \cup StoreSteps /\ ~last'.ok) =>
          /\ sockets' = sockets
          /\ dbConnected' = dbConnected
          /\ store' = store
          /\ last'.act \in GuardedEvents => tasks' = tasks
          /\ last'.act \in StoreSteps =>
                \E t \in DOMAIN tasks : tasks' = RemoveAt(tasks, t)]_vars
  /\ [](Failed =>
          /\ \A t \in DOMAIN tasks :
                ENABLED (\/ JoinFind(t, FALSE) \/ SendSave(t, FALSE)
                         \/ ReactFind(t, FALSE) \/ ReactSave(t, FALSE)
                         \/ PinUpdate(t, FALSE) \/ PinFind(t, FALSE)
                         \/ DeleteExec(t, FALSE))
          /\ \A c \in Conns :
                (sockets[c] = "connected" /\ issued < MaxEvents) =>
                   /\ \A room \in Rooms, name \in Names :
                         ENABLED JoinRoom(c, room, name)
                   /\ \A room \in Rooms : ENABLED LeaveRoom(c, room)
                   /\ \A id \in MsgIds, label \in Labels, room \in Rooms :
                         ENABLED ReactMessage(c, id, label, room)
                   /\ \A id \in MsgIds, room \in Rooms :
                         /\ ENABLED PinMessage(c, id, room)
                         /\ ENABLED DeleteMessage(c, id, room)
                   /\ \A room \in Rooms, name \in SendNames, text \in Texts :
                         (~dbConnected \/ nextId < MaxMsgs) =>
                            ENABLED SendMessage(c, room, name, text)
                   /\ ENABLED Disconnect(c))

\* C21 witness: the write of a sendMessage of one socket failed while a
\* handler of the other socket was suspended; both sockets are connected.
C21_Witness ==
  /\ last.act = "sendSave"
  /\ ~last.ok
  /\ \A c \in Conns : sockets[c] = "connected"
  /\ \E t \in DOMAIN tasks : tasks[t].conn # last.conn

\* C22: the loadMessages answers to the joinRoom events of one socket for
\* different rooms are emitted in the order of the events: when the read of
\* a joinRoom completes, no joinRoom for another room that the same socket
\* issued before it is still waiting for its read.
C22_JoinAnswerOrder ==
  [][\A t \in DOMAIN tasks :
        (/\ last'.act = "joinFind"
         /\ tasks[t].kind = "join"
         /\ tasks[t].conn = last'.conn
         /\ tasks[t].room = last'.room
         /\ tasks' = RemoveAt(tasks, t)) =>
           \A u \in 1..(t - 1) :
              ~(/\ tasks[u].kind = "join"
                /\ tasks[u].conn = last'.conn
                /\ tasks[u].room # last'.room)]_vars

\* C23: every socket id in the presence mapping of a room is the id of a
\* connected socket that is in that room.
C23_PresenceIsMember ==
  \A r \in Rooms : \A i \in DOMAIN online[r] :
     /\ sockets[online[r][i].id] = "connected"
     /\ r \in joined[online[r][i].id]

(***************************************************************************)
(* The same handlers, with a store call of reactMessage, pinMessage and    *)
(* deleteMessage taken in two steps: the store carries the call out, and   *)
(* later its response reaches the handler, which then continues.  The      *)
(* calls of different handlers travel on different connections of the      *)
(* pool (maxPoolSize 10), so their responses can arrive in another order   *)
(* than the store carried the calls out.                                   *)
(***************************************************************************)
\* the store carries out the save() of a reactMessage handler, or fails
ReactSaveApply(t, ok) ==
  /\ Pending(t, "react", "save")
  /\ ok => dbConnected
  /\ IF ok /\ FindById(store, tasks[t].id).id # 0
     THEN /\ store' = Save(store, tasks[t].doc, tasks[t].label,
                           tasks[t].modified)
          /\ tasks' = [tasks EXCEPT ![t].pc = "saved"]
     ELSE /\ store' = store
          /\ tasks' = [tasks EXCEPT ![t].pc = "threw"]
  /\ out' = <<>>
  /\ last' = Step("reactSaveApply", tasks[t].conn, tasks[t].room, tasks[t].id,
                  ok, ok /\ FindById(store, tasks[t].id).id # 0)
  /\ MessageFrame
  /\ UNCHANGED <<nextId, issued, reactCount>>

\* reactMessage, after `await msg.save()`
ReactSaveReturn(t) ==
  /\ \/ Pending(t, "react", "saved")
     \/ Pending(t, "react", "threw")
  /\ IF tasks[t].pc = "saved"
     THEN /\ out' = <<ToRoom(joined, tasks[t].room, "updateMessage",
                             tasks[t].doc)>>
          /\ reactCount' = [reactCount EXCEPT
                              ![tasks[t].id][tasks[t].label] = @ + 1]
     ELSE /\ out' = <<>>
          /\ reactCount' = reactCount
  /\ tasks' = RemoveAt(tasks, t)
  /\ last' = Step("reactSaveReturn", tasks[t].conn, tasks[t].room, tasks[t].id,
                  tasks[t].pc = "saved", tasks[t].pc = "saved")
  /\ MessageFrame
  /\ UNCHANGED <<store, nextId, issued>>

\* the store carries out the findById of a pinMessage handler, or fails
PinFindApply(t, ok) ==
  /\ Pending(t, "pin", "find")
  /\ ok => dbConnected
  /\ tasks' = IF ok
              THEN [tasks EXCEPT ![t].pc = "found",
                                 ![t].doc = FindById(store, tasks[t].id)]
              ELSE [tasks EXCEPT ![t].pc = "threw"]
  /\ out' = <<>>
  /\ last' = Step("pinFindApply", tasks[t].conn, tasks[t].room, tasks[t].id, ok,
                  ok /\ FindById(store, tasks[t].id).id # 0)
  /\ MessageFrame
  /\ UNCHANGED <<store, nextId, issued, reactCount>>

\* pinMessage, after `await Message.findById`
PinFindReturn(t) ==
  /\ \/ Pending(t, "pin", "found")
     \/ Pending(t, "pin", "threw")
  /\ out' = IF tasks[t].pc = "found"
            THEN <<ToRoom(joined, tasks[t].room, "updateMessage", tasks[t].doc)>>
            ELSE <<>>
  /\ tasks' = RemoveAt(tasks, t)
  /\ last' = Step("pinFindReturn", tasks[t].conn, tasks[t].room, tasks[t].id,
                  tasks[t].pc = "found",
                  tasks[t].pc = "found" /\ tasks[t].doc.id # 0)
  /\ MessageFrame
  /\ UNCHANGED <<store, nextId, issued, reactCount>>

\* the store carries out the findByIdAndDelete of a deleteMessage handler,
\* or fails
DeleteApply(t, ok) ==
  /\ Pending(t, "delete", "delete")
  /\ ok => dbConnected
  /\ store' = IF ok THEN FindByIdAndDelete(store, tasks[t].id) ELSE store
  /\ tasks' = [tasks EXCEPT ![t].pc = IF ok THEN "deleted" ELSE "threw"]
  /\ out' = <<>>
  /\ last' = Step("deleteApply", tasks[t].conn, tasks[t].room, tasks[t].id, ok,
                  ok /\ FindById(store, tasks[t].id).id # 0)
  /\ MessageFrame
  /\ UNCHANGED <<nextId, issued, reactCount>>

\* deleteMessage, after `await Message.findByIdAndDelete`
DeleteReturn(t) ==
  /\ \/ Pending(t, "delete", "deleted")
     \/ Pending(t, "delete", "threw")
  /\ out' = IF tasks[t].pc = "deleted"
            THEN <<ToRoom(joined, tasks[t].room, "deletedMessage",
                          [messageId |-> tasks[t].id])>>
            ELSE <<>>
  /\ tasks' = RemoveAt(tasks, t)
  /\ last' = Step("deleteReturn", tasks[t].conn, tasks[t].room, tasks[t].id,
                  tasks[t].pc = "deleted", FALSE)
  /\ MessageFrame
  /\ UNCHANGED <<store, nextId, issued, reactCount>>

NextWire ==
  \/ \E c \in Conns : Connect(c)
  \/ \E c \in Conns, room \in Rooms, name \in SendNames, text \in Texts :
        SendMessage(c, room, name, text)
  \/ \E t \in Tasks, ok \in BOOLEAN : SendSave(t, ok)
  \/ \E c \in Conns, id \in MsgIds, label \in Labels, room \in Rooms :
        ReactMessage(c, id, label, room)
  \/ \E t \in Tasks, ok \in BOOLEAN : ReactFind(t, ok)
  \/ \E t \in Tasks, ok \in BOOLEAN : ReactSaveApply(t, ok)
  \/ \E t \in Tasks : ReactSaveReturn(t)
  \/ \E c \in Conns, id \in MsgIds, room \in Rooms : PinMessage(c, id, room)
  \/ \E t \in Tasks, ok \in BOOLEAN : PinUpdate(t, ok)
  \/ \E t \in Tasks, ok \in BOOLEAN : PinFindApply(t, ok)
  \/ \E t \in Tasks : PinFindReturn(t)
  \/ \E c \in Conns, id \in MsgIds, room \in Rooms : DeleteMessage(c, id, room)
  \/ \E t \in Tasks, ok \in BOOLEAN : DeleteApply(t, ok)
  \/ \E t \in Tasks : DeleteReturn(t)

SpecWire == Init /\ [][NextWire]_vars

\* the message with this identifier was removed and the handler that
\* removed it has emitted its deletedMessage: the identifier was given to a
\* message whose sendMessage has ended, the store does not hold it, and no
\* deleteMessage handler for it is waiting for the response of a delete the
\* store carried out
Noticed(id) ==
  /\ id \in 1..nextId
  /\ store[id].id = 0
  /\ \A t \in DOMAIN tasks :
        /\ ~(tasks[t].kind = "send" /\ tasks[t].id = id)
        /\ ~(tasks[t].kind = "delete" /\ tasks[t].id = id
               /\ tasks[t].pc = "deleted")

\* C24: only the write of its sendMessage puts a message into the store, so
\* no reactMessage or pinMessage brings a removed message back; and no
\* newMessage or updateMessage that carries a message is emitted once the
\* message was removed and its deletedMessage emitted.
C24_NoUpdateAfterDelete ==
  [][/\ \A id \in MsgIds :
           (store[id].id = 0 /\ store'[id].id # 0) =>
              /\ last'.act = "sendSave"
              /\ last'.id = id
              /\ \E t \in DOMAIN tasks :
                    tasks[t].kind = "send" /\ tasks[t].id = id
     /\ \A i \in DOMAIN out' :
           (out'[i].ev \in {"newMessage", "updateMessage"}
              /\ out'[i].payload.id # 0) =>
              ~Noticed(out'[i].payload.id)]_vars

\* the reactMessage handlers for a message and label that wait for a store
\* call
ReactsPending(id, l) ==
  Len(SelectSeq(tasks, LAMBDA k :
                  k.kind = "react" /\ k.id = id /\ k.label = l))

\* C25: for a message the store holds, once N >= 1 reactMessage handlers for
\* a label have completed their write, the stored count of the label is at
\* least 1 and at most N; and the count an updateMessage carries is at most
\* the number of handlers for the label that have completed or are still
\* waiting, which is at most the number of reactMessage events issued.
C25_TallyBounds ==
  /\ \A id \in MsgIds, l \in Labels :
        (store[id].id # 0 /\ reactCount[id][l] >= 1) =>
           /\ store[id].reactions[l] >= 1
           /\ store[id].reactions[l] <= reactCount[id][l]
  /\ (last.act = "reactSave" /\ last.found) =>
        \A l \in Labels :
           out[1].payload.reactions[l]
             <= reactCount[last.id][l] + ReactsPending(last.id, l)

\* C25 witness: the second of two reactMessage handlers read the count the
\* first had stored; its updateMessage carries 2 and the stored count is
\* still 1.
C25_Witness ==
  /\ last.act = "reactSave"
  /\ last.found
  /\ reactCount[last.id]["up"] = 2
  /\ out[1].payload.reactions["up"] = 2
  /\ store[last.id].reactions["up"] = 1

\* the steps of the message handlers and of the presence handlers
MessageSteps ==
  {"sendMessage", "sendSave", "reactMessage", "reactFind", "reactSave",
   "pinMessage", "pinUpdate", "pinFind", "deleteMessage", "deleteExec"}

PresenceSteps == {"joinRoom", "joinFind", "leaveRoom", "disconnect"}

\* C26: no step of sendMessage, reactMessage, pinMessage or deleteMessage,
\* whatever its outcome, changes the presence table or the rooms the
\* sockets are in, and none emits presence; no step of joinRoom, leaveRoom
\* or disconnect changes a stored message, and none emits a message event.
C26_DisjointEffects ==
  [][/\ last'.act \in MessageSteps =>
           /\ online' = online
           /\ onlineKeys' = onlineKeys
           /\ joined' = joined
           /\ \A i \in DOMAIN out' : out'[i].ev # "presence"
     /\ last'.act \in PresenceSteps =>
           /\ store' = store
           /\ nextId' = nextId
           /\ \A i \in DOMAIN out' :
                 out'[i].ev \in {"presence", "loadMessages"}]_vars

\* C26 witness: a socket disconnected and was taken out of a room's presence
\* table while the store held a message of that room.
C26_Witness ==
  /\ last.act = "disconnect"
  /\ Len(out) = 1
  /\ out[1].ev = "presence"
  /\ \E i \in MsgIds : store[i].id # 0 /\ store[i].room = out[1].room

====
